---- MODULE Spec2Model ----
(***************************************************************************)
(* Energy SCADA & Financial Dashboard (src/app.py).                        *)
(*                                                                         *)
(* A Streamlit script: every user interaction (page load, upload, region   *)
(* selection, advisor query) re-runs main() from top to bottom.  The only  *)
(* state that survives a run is the process-wide st.cache_data entry of    *)
(* generate_mock_data() and the session's widget values.                   *)
(*                                                                         *)
(* Numbers are fixed point:                                                *)
(*   consumption columns (processes, 'L1 Site', Predicted_Energy): 0.1 kW  *)
(*   rates drawn by np.random.uniform(0.15, 0.25): 0.001                   *)
(*   '<region>_Amount', '<region>_cost_safe': 0.0001 EUR                   *)
(*   '<region>_PassThrough_*': 0.000001 EUR                                *)
(* Timestamps are whole hours since a Monday 00:00.                        *)
(***************************************************************************)
EXTENDS Integers, Sequences, FiniteSets, TLC

\* ------------------------------------------------------------------ bounds
\* pd.date_range(..., periods=24*30): rows of the historical table.
HistPeriods == 3
\* pd.date_range(..., periods=24*7): rows of the forecast table.
ForePeriods == 2
\* Seeds np.random may start from (see Rnd).
NSeeds == 8
\* datetime.now(), in hours.
Now == 1000

\* The state of np.random when the process starts.
RngStates == 1..NSeeds

\* --------------------------------------------------------- program constants
processes ==
    <<"Chillers", "Compressor 1", "Compressor 2", "Trafo 1", "Trafo 2",
      "Extraction", "Supply Air 1", "Supply Air 2", "Filing", "Polishing", "LPDC">>
regions == <<"Mainland", "Balearic", "Canary", "Ceuta", "Melilla">>
Range(s) == {s[i] : i \in DOMAIN s}

\* tail(24), tail(168) and tail(24*7), tail(48) and head(48)
DayWindow == 24
WeekWindow == 168
ForecastWindow == 48

Amount(r) == r \o "_Amount"
PassThroughPMD(r) == r \o "_PassThrough_PMD"
PassThroughAi(r) == r \o "_PassThrough_Ai"
CostSafe(r) == r \o "_cost_safe"

\* ------------------------------------------------------------ series helpers
RECURSIVE Sum(_)
Sum(s) == IF s = << >> THEN 0 ELSE Head(s) + Sum(Tail(s))

Max(S) == CHOOSE x \in S : \A y \in S : y <= x
Min(S) == CHOOSE x \in S : \A y \in S : x <= y

\* A DataFrame is a function from column names to equally long sequences.
NRows(df) == Len(df["Timestamp"])
Columns(df) == DOMAIN df

\* DataFrame.tail(n) / DataFrame.head(n): a new frame holding the last / first
\* n rows.
TailRows(df, n) ==
    [c \in DOMAIN df |-> SubSeq(df[c], Max({1, NRows(df) - n + 1}), NRows(df))]
HeadRows(df, n) ==
    [c \in DOMAIN df |-> SubSeq(df[c], 1, Min({n, NRows(df)}))]

\* df[cols]: a new frame holding the named columns.
Select(df, cols) == [c \in cols |-> df[c]]

\* df[c] = series: the frame with column c set (added when new).
WithColumn(df, c, series) ==
    [k \in DOMAIN df \cup {c} |-> IF k = c THEN series ELSE df[k]]

\* --------------------------------------------------------------- np.random
\* np.random is a deterministic generator seeded when the process starts: here
\* the Lehmer generator x -> 3x mod 31.  RngAdvance is its state after k
\* numbers (30 steps bring it back to where it was); each number it hands out
\* is one of the levels 0, 1, 2.
RECURSIVE RngAdvance(_, _)
RngAdvance(g, k) ==
    IF k = 0 THEN g
    ELSE IF k >= 30 THEN RngAdvance(g, k - 30)
    ELSE RngAdvance((3 * g) % 31, k - 1)

\* The k-th number the generator in state g hands out next, k = 1, 2, ...
Rnd(g, k) == RngAdvance(g, k) % 3

\* np.random.uniform(lo, hi): lo, lo + (hi-lo)/3 or lo + 2(hi-lo)/3.
Uniform(lo, hi, l) == lo + (l * (hi - lo)) \div 3

\* np.random.normal(mu, sigma): mu - sigma, mu or mu + sigma.
Normal(mu, sigma, l) == mu + (l - 1) * sigma

\* pd.date_range(end=e, periods=n, freq='H') and (start=s, periods=n, freq='H').
DateRangeEnd(e, n) == [i \in 1..n |-> e - (n - i)]
DateRangeStart(s, n) == [i \in 1..n |-> s + (i - 1)]

\* -------------------------------------------------------- generate_mock_data
\* Draws are consumed in the order of the calls: for each process one uniform
\* (base) and then len(dates) normals; one uniform per region; len(future_dates)
\* normals; one uniform per region.
ProcBaseAt(k) == (k - 1) * (HistPeriods + 1) + 1
RegionRateAt(j) == Len(processes) * (HistPeriods + 1) + j
ForecastAt(i) == Len(processes) * (HistPeriods + 1) + Len(regions) + i
SafeRateAt(j) == ForecastAt(ForePeriods) + j

\* Lines 53-54 (50 and 200 kW are 500 and 2000 tenths of a kW).
ProcessSeries(g, k) ==
    LET base == Uniform(500, 2000, Rnd(g, ProcBaseAt(k)))
    IN  [i \in 1..HistPeriods |->
            Normal(base, base \div 10, Rnd(g, ProcBaseAt(k) + i))]

\* df_hist[processes].sum(axis=1); L1SiteOmitLast leaves 'LPDC' out of the sum.
L1SiteOmitLast(data) ==
    [i \in 1..HistPeriods |->
        Sum([k \in 1..(Len(processes) - 1) |-> data[processes[k]][i]])]
L1Site(data) ==
    [i \in 1..HistPeriods |->
        Sum([k \in 1..Len(processes) |-> data[processes[k]][i]])]

IndexOf(seq, x) == CHOOSE i \in DOMAIN seq : seq[i] = x

\* The three columns of one region (lines 63-66).
AmountSeries(g, l1, r) ==
    LET rate == Uniform(150, 250, Rnd(g, RegionRateAt(IndexOf(regions, r))))
    IN  [i \in 1..HistPeriods |-> l1[i] * rate]
PMDSeries(amount) == [i \in DOMAIN amount |-> amount[i] * 10]
AiSeries(amount) == [i \in DOMAIN amount |-> amount[i] * 5]

HistDates == DateRangeEnd(Now, HistPeriods)
FutureDates(dates) == DateRangeStart(dates[Len(dates)], ForePeriods)

HistFrame(g) ==
    LET procCols == [p \in Range(processes) |->
                        ProcessSeries(g, IndexOf(processes, p))]
        l1 == L1Site(procCols)
        amt == [r \in Range(regions) |-> AmountSeries(g, l1, r)]
        cols == {"Timestamp", "L1 Site"} \cup Range(processes)
                  \cup {Amount(r) : r \in Range(regions)}
                  \cup {PassThroughPMD(r) : r \in Range(regions)}
                  \cup {PassThroughAi(r) : r \in Range(regions)}
    IN  [c \in cols |->
            IF c = "Timestamp" THEN HistDates
            ELSE IF c = "L1 Site" THEN l1
            ELSE IF c \in Range(processes) THEN procCols[c]
            ELSE LET r == CHOOSE x \in Range(regions) :
                              c \in {Amount(x), PassThroughPMD(x), PassThroughAi(x)}
                 IN  IF c = Amount(r) THEN amt[r]
                     ELSE IF c = PassThroughPMD(r) THEN PMDSeries(amt[r])
                     ELSE AiSeries(amt[r])]

ForecastFrame(g) ==
    LET pe == [i \in 1..ForePeriods |->
                  Normal(15000, 2000, Rnd(g, ForecastAt(i)))]
        cols == {"Timestamp", "Predicted_Energy"}
                  \cup {CostSafe(r) : r \in Range(regions)}
    IN  [c \in cols |->
            IF c = "Timestamp" THEN FutureDates(HistDates)
            ELSE IF c = "Predicted_Energy" THEN pe
            ELSE LET j == CHOOSE x \in DOMAIN regions : c = CostSafe(regions[x])
                 IN  [i \in 1..ForePeriods |->
                        pe[i] * Uniform(180, 280, Rnd(g, SafeRateAt(j)))]]

\* The body of generate_mock_data(): (df_hist, df_forecast).
GenerateBody(g) == [hist |-> HistFrame(g), fore |-> ForecastFrame(g)]

\* Numbers the body draws, and the generator after it.
DrawsPerCall == SafeRateAt(Len(regions))
RngAfter(g) == RngAdvance(g, DrawsPerCall)

\* @st.cache_data: the body runs on a miss and its result is stored; a hit
\* returns a copy of the stored result.  store is << >> or <<result>>.
GenerateMockDataUncached(store, g) ==
    [value |-> GenerateBody(g), store |-> <<GenerateBody(g)>>,
     rng |-> RngAfter(g), ran |-> 1]
GenerateMockData(store, g) ==
    IF store = << >>
    THEN [value |-> GenerateBody(g), store |-> <<GenerateBody(g)>>,
          rng |-> RngAfter(g), ran |-> 1]
    ELSE [value |-> store[1], store |-> store, rng |-> g, ran |-> 0]


\* ------------------------------------------------------------------- strings
\* A Python string is the sequence of its characters.
UpperChars ==
    <<"A", "B", "C", "D", "E", "F", "G", "H", "I", "J", "K", "L", "M",
      "N", "O", "P", "Q", "R", "S", "T", "U", "V", "W", "X", "Y", "Z">>
LowerChars ==
    <<"a", "b", "c", "d", "e", "f", "g", "h", "i", "j", "k", "l", "m",
      "n", "o", "p", "q", "r", "s", "t", "u", "v", "w", "x", "y", "z">>

\* str.lower()
Lower(s) ==
    [i \in DOMAIN s |->
        IF s[i] \in Range(UpperChars)
        THEN LowerChars[IndexOf(UpperChars, s[i])]
        ELSE s[i]]

\* kw in s
Contains(s, kw) ==
    \E i \in 1..(Len(s) - Len(kw) + 1) : SubSeq(s, i, i + Len(kw) - 1) = kw

\* "expensive"
KwExpensive == <<"e", "x", "p", "e", "n", "s", "i", "v", "e">>
\* "cost"
KwCost == <<"c", "o", "s", "t">>
\* "process"
KwProcess == <<"p", "r", "o", "c", "e", "s", "s">>
\* "consume"
KwConsume == <<"c", "o", "n", "s", "u", "m", "e">>
\* "optimize"
KwOptimize == <<"o", "p", "t", "i", "m", "i", "z", "e">>

\* What the user may type into the advisor's text input.
\* ""
Q_empty == << >>
\* "Most EXPENSIVE hour?"
Q_expensive ==
    <<"M", "o", "s", "t", " ", "E", "X", "P", "E", "N", "S", "I", "V", "E",
      " ", "h", "o", "u", "r", "?">>
\* "Cost"
Q_cost == <<"C", "o", "s", "t">>
\* "which process is expensive"
Q_process_expensive ==
    <<"w", "h", "i", "c", "h", " ", "p", "r", "o", "c", "e", "s", "s", " ",
      "i", "s", " ", "e", "x", "p", "e", "n", "s", "i", "v", "e">>
\* "top process"
Q_process == <<"t", "o", "p", " ", "p", "r", "o", "c", "e", "s", "s">>
\* "who CONSUMES most"
Q_consume ==
    <<"w", "h", "o", " ", "C", "O", "N", "S", "U", "M", "E", "S", " ", "m",
      "o", "s", "t">>
\* "consume cost"
Q_consume_cost ==
    <<"c", "o", "n", "s", "u", "m", "e", " ", "c", "o", "s", "t">>
\* "Optimize"
Q_optimize == <<"O", "p", "t", "i", "m", "i", "z", "e">>
\* "optimize process"
Q_optimize_process ==
    <<"o", "p", "t", "i", "m", "i", "z", "e", " ", "p", "r", "o", "c", "e",
      "s", "s">>
\* "peak hours"
Q_peak == <<"p", "e", "a", "k", " ", "h", "o", "u", "r", "s">>

Queries ==
    {Q_empty, Q_expensive, Q_cost, Q_process_expensive, Q_process, Q_consume,
     Q_consume_cost, Q_optimize, Q_optimize_process, Q_peak}

\* ------------------------------------------------------------------- widgets
\* st.file_uploader returns None or the uploaded file.
NoFile == "None"
Files == {"a.xlsx", "b.xlsx"}

\* pd.read_excel(file): the tables an uploaded workbook holds.
ReadExcel(file) ==
    GenerateBody(IF file = "a.xlsx" THEN 11 ELSE 17)

\* Lines 89-95: both branches bind the result of generate_mock_data().
\* LoadTablesRead is the "real logic" of the comment at line 90.
LoadTablesRead(hf, ff, mock) ==
    IF hf # NoFile /\ ff # NoFile
    THEN [hist |-> ReadExcel(hf).hist, fore |-> ReadExcel(ff).fore]
    ELSE mock
LoadTables(hf, ff, mock) ==
    IF hf # NoFile /\ ff # NoFile THEN mock ELSE mock

SidebarStatus(hf, ff) ==
    IF hf # NoFile /\ ff # NoFile
    THEN "Files Uploaded (Using Mock Data for Demo)"
    ELSE "Awaiting Uploads... (Using Simulation Mode)"

\* ---------------------------------------------------------------- main: tabs
\* The local variables of main() that name DataFrames: a function from the
\* variable's name to the frame it is bound to.  Assign binds one.
Assign(frames, name, df) ==
    [k \in DOMAIN frames \cup {name} |-> IF k = name THEN df ELSE frames[k]]

\* df.iloc[-k] and df.loc[i] (the index is the default RangeIndex).
ILocBack(df, k) == [c \in DOMAIN df |-> df[c][NRows(df) - k + 1]]
Loc(df, i) == [c \in DOMAIN df |-> df[c][i]]

\* f"{x:.2f}" of an amount: whole cents, an exact half rounded to even.
Fmt2(x) ==
    LET q == x \div 100
        r == x % 100
    IN  IF r > 50 \/ (r = 50 /\ q % 2 = 1) THEN q + 1 ELSE q

\* Tab 1, lines 115-122: the four KPI metrics.
Kpis(df, rg) ==
    LET latest == ILocBack(df, 1)
        prev == ILocBack(df, 2)
    IN  [load |-> latest["L1 Site"],
         delta |-> latest["L1 Site"] - prev["L1 Site"],
         peak |-> Max(Range(TailRows(df, DayWindow)["L1 Site"])),
         top |-> "Chillers",
         cost |-> Fmt2(latest[Amount(rg)])]

DayNames ==
    <<"Monday", "Tuesday", "Wednesday", "Thursday", "Friday", "Saturday", "Sunday">>
HourOf(ts) == ts % 24
DayNameOf(ts) == DayNames[((ts \div 24) % 7) + 1]

WithHourDay(df) ==
    LET h == WithColumn(df, "Hour",
                        [i \in DOMAIN df["Timestamp"] |-> HourOf(df["Timestamp"][i])])
    IN  WithColumn(h, "Day",
                   [i \in DOMAIN df["Timestamp"] |-> DayNameOf(df["Timestamp"][i])])

\* Tab 1, lines 135-137: df_hm = df_hist.tail(24*7).copy(), then two columns
\* are added to df_hm.  HeatmapViewInPlace adds them to df_hist itself
\* (df_hm = df_hist).
HeatmapViewInPlace(frames) ==
    LET hm == WithHourDay(frames["df_hist"])
    IN  Assign(Assign(frames, "df_hist", hm), "df_hm", hm)
HeatmapView(frames) ==
    Assign(frames, "df_hm", WithHourDay(TailRows(frames["df_hist"], WeekWindow)))

\* DataFrame.mean() of one column, as the exact fraction num/den.
Mean(s) == [num |-> Sum(s), den |-> Len(s)]

\* Tab 2, lines 147-159: one SCADA card.
RenderMachine(name, value, avg_val) ==
    [name |-> name, value |-> value, avg_val |-> avg_val,
     is_alert |-> value * avg_val.den * 10 > avg_val.num * 11]

\* Lines 166-188: the cards in rendering order, <<title, column>>.
Machines ==
    << <<"Trafo 1", "Trafo 1">>, <<"Trafo 2", "Trafo 2">>, <<"Main Bus", "L1 Site">>,
       <<"Chillers", "Chillers">>, <<"Compressor 1", "Compressor 1">>,
       <<"Compressor 2", "Compressor 2">>,
       <<"Supply Air 1", "Supply Air 1">>, <<"Supply Air 2", "Supply Air 2">>,
       <<"Extraction", "Extraction">>,
       <<"LPDC", "LPDC">>, <<"Filing", "Filing">>, <<"Polishing", "Polishing">> >>

ScadaCards(df, latest) ==
    [k \in DOMAIN Machines |->
        RenderMachine(Machines[k][1], latest[Machines[k][2]], Mean(df[Machines[k][2]]))]

\* Tab 3, lines 221-222: the pass-through columns of the region, last 7 days.
PassThroughView(frames, rg) ==
    LET pt_cols == {c \in Columns(frames["df_hist"]) :
                        c \in {PassThroughPMD(rg), PassThroughAi(rg)}}
    IN  Assign(frames, "df_pt",
               TailRows(Select(frames["df_hist"], {"Timestamp"} \cup pt_cols), WeekWindow))

\* Line 229
TotalCosts(df) == [r \in Range(regions) |-> Sum(df[Amount(r)])]

\* Tab 4, lines 243 and 247: the two plotted slices.
ForecastView(frames) ==
    Assign(Assign(frames, "hist_slice", TailRows(frames["df_hist"], ForecastWindow)),
           "fore_slice", HeadRows(frames["df_forecast"], ForecastWindow))

\* ------------------------------------------------------------ main: advisor
\* Series.idxmax(): the label of the first row that holds the maximum.
\* IdxMinFirst is Series.idxmin().
IdxMinFirst(s) == Min({i \in DOMAIN s : \A j \in DOMAIN s : s[i] <= s[j]})
IdxMax(s) == Min({i \in DOMAIN s : \A j \in DOMAIN s : s[j] <= s[i]})

AdvisorCols == <<"Chillers", "Compressor 1", "LPDC">>

\* df[cols].sum().sort_values(ascending=False).index: the column names by
\* falling total, equal totals in the order of cols.  SortValuesAsc is
\* sort_values(ascending=True).
SortValuesAsc(df, cols) ==
    LET total(k) == Sum(df[cols[k]])
        before(a, b) == total(a) < total(b) \/ (total(a) = total(b) /\ a < b)
        rank(k) == 1 + Cardinality({j \in DOMAIN cols : before(j, k)})
    IN  [p \in DOMAIN cols |-> cols[CHOOSE k \in DOMAIN cols : rank(k) = p]]
SortValuesDesc(df, cols) ==
    LET total(k) == Sum(df[cols[k]])
        before(a, b) == total(a) > total(b) \/ (total(a) = total(b) /\ a < b)
        rank(k) == 1 + Cardinality({j \in DOMAIN cols : before(j, k)})
    IN  [p \in DOMAIN cols |-> cols[CHOOSE k \in DOMAIN cols : rank(k) = p]]

Response(rule) ==
    [rule |-> rule, timestamp |-> 0, amount |-> 0, region |-> "", name |-> ""]

CostAnswer(df, rg) ==
    LET max_cost_row == Loc(df, IdxMax(df[Amount(rg)]))
    IN  [Response("cost") EXCEPT !.timestamp = max_cost_row["Timestamp"],
                                 !.amount = Fmt2(max_cost_row[Amount(rg)]),
                                 !.region = rg]

ProcessAnswer(df) ==
    [Response("process") EXCEPT !.name = SortValuesDesc(df, AdvisorCols)[1]]

\* Lines 264-283: the calls of st.info, << >> when there is none.
\* AdvisorCaseSensitive matches the keywords in user_query itself.
AdvisorCaseSensitive(df, rg, uq) ==
    IF uq = << >> THEN << >>
    ELSE IF Contains(uq, KwExpensive) \/ Contains(uq, KwCost)
        THEN <<CostAnswer(df, rg)>>
    ELSE IF Contains(uq, KwProcess) \/ Contains(uq, KwConsume)
        THEN <<ProcessAnswer(df)>>
    ELSE IF Contains(uq, KwOptimize)
        THEN <<Response("optimize")>>
    ELSE <<Response("fallback")>>
Advisor(df, rg, uq) ==
    IF uq = << >> THEN << >>
    ELSE LET q == Lower(uq)
         IN  IF Contains(q, KwExpensive) \/ Contains(q, KwCost)
                 THEN <<CostAnswer(df, rg)>>
             ELSE IF Contains(q, KwProcess) \/ Contains(q, KwConsume)
                 THEN <<ProcessAnswer(df)>>
             ELSE IF Contains(q, KwOptimize)
                 THEN <<Response("optimize")>>
             ELSE <<Response("fallback")>>

\* --------------------------------------------------------------------- state
VARIABLES
    cache,              \* st.cache_data's entry for generate_mock_data: << >> or <<result>>
    rng,                \* the state of np.random
    body_runs,          \* how often the body of generate_mock_data has run
    session,            \* whether a browser session has loaded the page
    uploaded_file_hist, \* the widgets of the session
    uploaded_file_fore,
    region,
    user_query,
    sidebar,            \* what the last run of main() rendered and bound:
    df_hist,            \*   the tables bound at lines 92/95
    df_forecast,
    frames,             \*   the frames its local variables name when it ends
    kpi,
    cards,
    total_costs,
    info

widgets == <<session, uploaded_file_hist, uploaded_file_fore, region, user_query>>
rendered == <<sidebar, df_hist, df_forecast, frames, kpi, cards, total_costs, info>>
vars == <<cache, rng, body_runs, widgets, rendered>>

NoFrame == [c \in {} |-> << >>]

Init ==
    /\ cache = << >>
    /\ rng \in RngStates
    /\ body_runs = 0
    /\ session = FALSE
    /\ uploaded_file_hist = NoFile
    /\ uploaded_file_fore = NoFile
    /\ region = regions[1]
    /\ user_query = Q_empty
    /\ sidebar = ""
    /\ df_hist = NoFrame
    /\ df_forecast = NoFrame
    /\ frames = NoFrame
    /\ kpi = NoFrame
    /\ cards = << >>
    /\ total_costs = NoFrame
    /\ info = << >>

\* main(), lines 82-283, with the widgets holding hf, ff, rg and uq.
Main(hf, ff, rg, uq) ==
    LET call == GenerateMockData(cache, rng)
        tables == LoadTables(hf, ff, call.value)
        f0 == [df_hist |-> tables.hist, df_forecast |-> tables.fore]
        latest == ILocBack(f0["df_hist"], 1)
        f1 == HeatmapView(f0)
        f2 == PassThroughView(f1, rg)
        f3 == ForecastView(f2)
    IN  /\ cache' = call.store
        /\ rng' = call.rng
        /\ body_runs' = body_runs + call.ran
        /\ session' = TRUE
        /\ uploaded_file_hist' = hf
        /\ uploaded_file_fore' = ff
        /\ region' = rg
        /\ user_query' = uq
        /\ sidebar' = SidebarStatus(hf, ff)
        /\ df_hist' = tables.hist
        /\ df_forecast' = tables.fore
        /\ kpi' = Kpis(f0["df_hist"], rg)
        /\ cards' = ScadaCards(f1["df_hist"], latest)
        /\ total_costs' = TotalCosts(f2["df_hist"])
        /\ info' = Advisor(f3["df_hist"], rg, uq)
        /\ frames' = f3

\* A browser opens (or reloads) the page, whether or not it showed it before:
\* the widgets take their defaults.
NewSession ==
    /\ session \in BOOLEAN
    /\ Main(NoFile, NoFile, regions[1], Q_empty)

\* The user presses "Rerun": the script runs again with the widgets as they are.
Rerun ==
    /\ session
    /\ Main(uploaded_file_hist, uploaded_file_fore, region, user_query)

UploadHist ==
    /\ session
    /\ \E f \in (Files \cup {NoFile}) \ {uploaded_file_hist} :
           Main(f, uploaded_file_fore, region, user_query)

UploadFore ==
    /\ session
    /\ \E f \in (Files \cup {NoFile}) \ {uploaded_file_fore} :
           Main(uploaded_file_hist, f, region, user_query)

SelectRegion ==
    /\ session
    /\ \E r \in Range(regions) \ {region} :
           Main(uploaded_file_hist, uploaded_file_fore, r, user_query)

AskAdvisor ==
    /\ session
    /\ \E q \in Queries \ {user_query} :
           Main(uploaded_file_hist, uploaded_file_fore, region, q)

Next ==
    \/ NewSession
    \/ Rerun
    \/ UploadHist
    \/ UploadFore
    \/ SelectRegion
    \/ AskAdvisor

Spec == Init /\ [][Next]_vars

\* ==================================================================== claims
Hist == cache[1].hist
Rows(df) == 1..NRows(df)
BothUploaded == uploaded_file_hist # NoFile /\ uploaded_file_fore # NoFile

\* C1: uploaded files never influence the data shown.  After every run, whatever
\* the two upload widgets hold, the tables main() binds are the tables
\* generate_mock_data() returned; and a run that differs from the one before
\* only in the uploaded files renders the same tables, KPIs, cards, totals and
\* advisor answer, and differs at most in the sidebar status message, which
\* tells whether both files are there.
C1_UploadsDoNotInfluenceData ==
    [][/\ session' =>
            /\ df_hist' = cache'[1].hist
            /\ df_forecast' = cache'[1].fore
            /\ sidebar' = IF BothUploaded'
                          THEN "Files Uploaded (Using Mock Data for Demo)"
                          ELSE "Awaiting Uploads... (Using Simulation Mode)"
       /\ (/\ session
           /\ <<uploaded_file_hist, uploaded_file_fore>>' #
                  <<uploaded_file_hist, uploaded_file_fore>>
           /\ region' = region
           /\ user_query' = user_query)
          => <<df_hist, df_forecast, frames, kpi, cards, total_costs, info>>' =
                 <<df_hist, df_forecast, frames, kpi, cards, total_costs, info>>
      ]_vars

\* Both files uploaded, with different contents, and the tables shown are the
\* generated ones.
C1_Witness ==
    /\ session
    /\ uploaded_file_hist = "a.xlsx"
    /\ uploaded_file_fore = "b.xlsx"
    /\ sidebar = "Files Uploaded (Using Mock Data for Demo)"
    /\ df_hist = Hist
    /\ df_hist # ReadExcel("a.xlsx").hist

\* C2: for every non-empty query containing "expensive" and every selected
\* region, the answer reports the timestamp and the amount (in whole cents) of a
\* row of the historical table whose '<region>_Amount' is maximal over the whole
\* table, for the selected region and no other.
C2_ExpensiveReportsMaxRow ==
    (session /\ Contains(user_query, KwExpensive)) =>
        /\ Len(info) = 1
        /\ info[1].rule = "cost"
        /\ info[1].region = region
        /\ \E i \in Rows(Hist) :
              /\ \A j \in Rows(Hist) : Hist[Amount(region)][j] <= Hist[Amount(region)][i]
              /\ info[1].timestamp = Hist["Timestamp"][i]
              /\ info[1].amount = Fmt2(Hist[Amount(region)][i])

\* The query "which process is expensive" is answered for a region other than
\* the default one, on a table whose maximal row is neither the first nor the
\* last, and where another region's amount in that row differs.
C2_Witness ==
    /\ session
    /\ user_query = Q_process_expensive
    /\ region # regions[1]
    /\ info # << >>
    /\ info[1].timestamp = Hist["Timestamp"][2]
    /\ Hist[Amount(region)][2] > Hist[Amount(region)][1]
    /\ Hist[Amount(region)][2] > Hist[Amount(region)][3]
    /\ \E r \in Range(regions) : Hist[Amount(r)][2] # Hist[Amount(region)][2]

AdvisorTotal(c) == Sum(Hist[c])
NamesGreatestTotal ==
    /\ Len(info) = 1
    /\ info[1].rule = "process"
    /\ info[1].name \in {"Chillers", "Compressor 1", "LPDC"}
    /\ \A c \in {"Chillers", "Compressor 1", "LPDC"} :
          AdvisorTotal(c) <= AdvisorTotal(info[1].name)

\* C3 as stated: for every query whose lower-cased text contains "process" or
\* "consume", whatever else it contains, the answer names the sector with the
\* greatest total among Chillers, Compressor 1 and LPDC.
C3_ProcessAlwaysNamesGreatest ==
    (session /\ (Contains(Lower(user_query), KwProcess)
                    \/ Contains(Lower(user_query), KwConsume)))
        => NamesGreatestTotal

\* C3 as amended: for every query whose lower-cased text contains "process" or
\* "consume" and neither "expensive" nor "cost", the answer names the sector
\* with the greatest total among Chillers, Compressor 1 and LPDC.
C3_ProcessNamesGreatestUnlessCost ==
    (/\ session
     /\ Contains(Lower(user_query), KwProcess) \/ Contains(Lower(user_query), KwConsume)
     /\ ~Contains(Lower(user_query), KwExpensive)
     /\ ~Contains(Lower(user_query), KwCost))
        => NamesGreatestTotal

\* "who CONSUMES most" is answered with LPDC, whose total is strictly the
\* greatest of the three.
C3_Witness ==
    /\ session
    /\ user_query = Q_consume
    /\ info # << >>
    /\ info[1].name = "LPDC"
    /\ AdvisorTotal("LPDC") > AdvisorTotal("Chillers")
    /\ AdvisorTotal("LPDC") > AdvisorTotal("Compressor 1")

\* C4: the cached historical table is immutable after creation.  No run changes
\* the cache entry; when a run ends, the frame df_hist names is still the table
\* bound at its start, which is the cached one, although the heatmap view has
\* gained 'Hour' and 'Day' and the slices and the pass-through subset were
\* taken from it.
C4_CachedTableImmutable ==
    [][/\ cache # << >> => cache' = cache
       /\ session' =>
            /\ frames'["df_hist"] = df_hist'
            /\ frames'["df_hist"] = cache'[1].hist
            /\ frames'["df_forecast"] = cache'[1].fore
            /\ Columns(frames'["df_hm"]) = Columns(cache'[1].hist) \cup {"Hour", "Day"}
            /\ Columns(frames'["df_pt"]) =
                  {"Timestamp", PassThroughPMD(region'), PassThroughAi(region')}
            /\ frames'["hist_slice"]["Timestamp"] = cache'[1].hist["Timestamp"]
      ]_vars

\* After an upload, a region change and an advisor query, the heatmap view
\* holds the two added columns and the pass-through subset is the region's.
C4_Witness ==
    /\ session
    /\ uploaded_file_hist # NoFile
    /\ region = "Ceuta"
    /\ user_query = Q_cost
    /\ {"Hour", "Day"} \subseteq Columns(frames["df_hm"])
    /\ frames["df_hm"]["Hour"][NRows(frames["df_hm"])] = HourOf(Now)
    /\ PassThroughAi("Ceuta") \in Columns(frames["df_pt"])

\* C5: the body of generate_mock_data() runs at most once in a process: only
\* the first run of main() executes it, and every later run, whatever the
\* interaction, binds tables identical to the first run's and renders the same
\* KPIs and advisor answer for the same region and query.
C5_GeneratedOnce ==
    [][/\ body_runs' <= 1
       /\ session' => body_runs' = 1
       /\ session =>
            /\ body_runs' = body_runs
            /\ df_hist' = df_hist
            /\ df_forecast' = df_forecast
            /\ (region' = region => kpi' = kpi)
            /\ (region' = region /\ user_query' = user_query => info' = info)
      ]_vars

\* Several interactions after the first run (an upload, a region change, an
\* advisor query), still with one run of the body.
C5_Witness ==
    /\ session
    /\ body_runs = 1
    /\ uploaded_file_fore = "b.xlsx"
    /\ region = "Melilla"
    /\ user_query = Q_consume_cost
    /\ info # << >>

\* C7: every machine card is in the alert state exactly when the machine's
\* latest value is greater than its historical average.
C7_AlertIffAboveAverage ==
    session =>
        \A k \in DOMAIN cards :
            cards[k].is_alert <=>
                cards[k].value * cards[k].avg_val.den > cards[k].avg_val.num

\* C8: the forecast table has its 24*7 rows (ForePeriods here) after the
\* history's 24*30 (HistPeriods): every forecast timestamp is strictly later
\* than every historical timestamp, so the two plotted series share none.
C8_ForecastAfterHistory ==
    session =>
        /\ NRows(df_forecast) = ForePeriods
        /\ NRows(df_hist) = HistPeriods
        /\ \A i \in Rows(df_forecast) : \A j \in Rows(df_hist) :
              df_forecast["Timestamp"][i] > df_hist["Timestamp"][j]
        /\ Range(frames["fore_slice"]["Timestamp"])
              \cap Range(frames["hist_slice"]["Timestamp"]) = {}

\* The rule the advisor's documentation gives for a lower-cased query: the
\* first of cost, process, optimize whose keywords occur, else the fallback.
RuleTable ==
    << <<"cost", {KwExpensive, KwCost}>>,
       <<"process", {KwProcess, KwConsume}>>,
       <<"optimize", {KwOptimize}>> >>
Matches(q) == {k \in DOMAIN RuleTable : \E kw \in RuleTable[k][2] : Contains(q, kw)}
FirstMatch(q) == IF Matches(q) = {} THEN "fallback" ELSE RuleTable[Min(Matches(q))][1]

\* C9: the advisor dispatch is total and first-match.  An empty query gives no
\* response; a non-empty one gives exactly one, chosen by the first matching
\* rule in the order (expensive or cost), (process or consume), optimize,
\* fallback, matching case-insensitively; a query with none of the five
\* keywords gets the fallback.
C9_DispatchTotalFirstMatch ==
    session =>
        /\ user_query = << >> => info = << >>
        /\ user_query # << >> =>
              /\ Len(info) = 1
              /\ info[1].rule = FirstMatch(Lower(user_query))
        /\ user_query \in {Q_expensive, Q_cost, Q_process_expensive, Q_consume_cost}
              => info[1].rule = "cost"
        /\ user_query \in {Q_process, Q_consume, Q_optimize_process}
              => info[1].rule = "process"
        /\ user_query = Q_optimize => info[1].rule = "optimize"
        /\ user_query = Q_peak => info[1].rule = "fallback"

\* "optimize process" matches the second and the third rule and is answered by
\* the second.
C9_Witness ==
    /\ session
    /\ user_query = Q_optimize_process
    /\ Len(info) = 1
    /\ info[1].rule = "process"

SumOfEleven(df, i) ==
    df["Chillers"][i] + df["Compressor 1"][i] + df["Compressor 2"][i]
        + df["Trafo 1"][i] + df["Trafo 2"][i] + df["Extraction"][i]
        + df["Supply Air 1"][i] + df["Supply Air 2"][i] + df["Filing"][i]
        + df["Polishing"][i] + df["LPDC"][i]

\* Amounts are in 0.0001 EUR and pass-through columns in 0.000001 EUR, so
\* 0.1 and 0.05 times an amount are 10 and 5 times its number.
RowsConsistent(df) ==
    \A i \in Rows(df) :
        /\ df["L1 Site"][i] = SumOfEleven(df, i)
        /\ \A r \in {"Mainland", "Balearic", "Canary", "Ceuta", "Melilla"} :
              /\ 10 * df[PassThroughPMD(r)][i] = 100 * df[Amount(r)][i]
              /\ 100 * df[PassThroughAi(r)][i] = 500 * df[Amount(r)][i]

\* C10: in every row of the historical table, after any sequence of user
\* interactions, 'L1 Site' is the sum of the row's eleven process columns, and
\* for every region the two pass-through columns are 0.1 and 0.05 times the
\* row's '<region>_Amount'.
C10_RowsConsistent ==
    session =>
        /\ NRows(Hist) = HistPeriods
        /\ RowsConsistent(Hist)
        /\ RowsConsistent(df_hist)
        /\ RowsConsistent(frames["df_hist"])

\* After several interactions, on a table whose rows differ and whose last
\* process column is not zero.
C10_Witness ==
    /\ session
    /\ uploaded_file_hist = "b.xlsx"
    /\ region = "Canary"
    /\ user_query = Q_peak
    /\ Hist["L1 Site"][1] # Hist["L1 Site"][2]
    /\ Hist["LPDC"][1] > 0
====
